---- MODULE Spec2Model ----
(***************************************************************************)
(* geoviews/util.py: conversion between NaN-delimited coordinate arrays    *)
(* and geometries, extent reprojection, longitude wrapping and the         *)
(* proj4-string parser.                                                    *)
(*                                                                         *)
(* Every function of the module is a synchronous call.  A call is one      *)
(* action: it draws its arguments from bounded sets, runs the function     *)
(* body and leaves the arguments, the values of the locals the properties  *)
(* speak about and the result (or the exception raised) in the state.      *)
(* Return hands control back to the caller.                                *)
(*                                                                         *)
(* The geometry library (shapely) and the projection library (cartopy,     *)
(* pyproj) are outside the repository.  A geometry constructor is modelled *)
(* as building a value that records its type tag and its arguments.        *)
(***************************************************************************)
EXTENDS Integers, Sequences, FiniteSets

VARIABLES
    op,     \* the function that ran last ("idle" between calls)
    inp,    \* its arguments
    paths,  \* per feature: the sub-arrays the call iterated over (NaN row dropped)
    subs,   \* per feature: the local list of sub-geometries (subpaths / subpolys / lines)
    loc,    \* other locals of the call, as they are when it ends
    out,    \* the value returned
    exc     \* the exception raised ("" when the call returned)

vars == <<op, inp, paths, subs, loc, out, exc>>

(***************************************************************************)
(* Bounds of the model.                                                    *)
(***************************************************************************)
MaxParts == 3      \* NaN-separated parts in the input of one call, all features together
MaxPartLen == 3    \* rows of one part

(***************************************************************************)
(* Coordinate arrays.  A row is <<x, y>> or <<x, y, v>>; NaN is the        *)
(* floating point not-a-number, encoded as an integer no coordinate takes. *)
(* The code reads of a coordinate only whether it is NaN, so the points of *)
(* an input are all different: row k of part j is Pt(j, k).                *)
(***************************************************************************)
NaN == 9999

Pt(j, k) == <<10 * j + k, 100 + 10 * j + k>>
PartOf(j, n) == [k \in 1..n |-> Pt(j, k)]
PartLens == UNION {[1..n -> 0..MaxPartLen] : n \in 1..MaxParts}
NanRows == {<<NaN, NaN>>, <<NaN, 0>>}

RECURSIVE Join(_, _)
Join(parts, sep) ==
    IF Len(parts) = 1 THEN parts[1]
    ELSE parts[1] \o <<sep>> \o Join(Tail(parts), sep)

RECURSIVE SumSeq(_)
SumSeq(s) == IF s = <<>> THEN 0 ELSE Head(s) + SumSeq(Tail(s))

Shapes == {sh \in UNION {[1..k -> 1..MaxParts] : k \in 1..MaxParts} : SumSeq(sh) <= MaxParts}

\* the parts ps dealt out to Len(sh) features, feature i taking sh[i] of them
Chunk(ps, sh) ==
    [i \in 1..Len(sh) |->
        LET before == SumSeq(SubSeq(sh, 1, i - 1))
        IN  SubSeq(ps, before + 1, before + sh[i])]

\* the arrays of the features of one element: every way to write at most MaxParts
\* parts, empty ones included, as arrays whose parts are separated by a row of seps
ArrayLists(seps) ==
    {<<>>} \cup
    {[i \in 1..Len(t[2]) |->
        Join(Chunk([j \in 1..Len(t[1]) |-> PartOf(j, t[1][j])], t[2])[i], t[3])] :
        t \in {u \in PartLens \X Shapes \X seps : SumSeq(u[2]) = Len(u[1])}}

Widen(array) == [i \in 1..Len(array) |-> array[i] \o <<NaN>>]

(***************************************************************************)
(* Geometries: the constructors of shapely.geometry.                       *)
(***************************************************************************)
Geometry(t, c, h, g) == [type |-> t, coords |-> c, holes |-> h, geoms |-> g]
LineString(coords) == Geometry("LineString", coords, <<>>, <<>>)
LinearRing(coords) == Geometry("LinearRing", coords, <<>>, <<>>)
Polygon(shell, holes) == Geometry("Polygon", shell, holes, <<>>)
MultiLineString(lines) == Geometry("MultiLineString", <<>>, <<>>, lines)
MultiPolygon(polys) == Geometry("MultiPolygon", <<>>, <<>>, polys)
Exterior(poly) == LinearRing(poly.coords)

(***************************************************************************)
(* Segmentation at NaN rows.                                               *)
(***************************************************************************)
Cols2(array) == [i \in 1..Len(array) |-> <<array[i][1], array[i][2]>>]

IsNan(v) == v = NaN

\* np.isnan(array[:, :2].astype('float')).sum(axis=1)
NanCount(array) ==
    [i \in 1..Len(array) |->
        (IF IsNan(Cols2(array)[i][1]) THEN 1 ELSE 0) + (IF IsNan(Cols2(array)[i][2]) THEN 1 ELSE 0)]

\* np.where(counts)[0]: the 0-based indexes of the non-zero entries, ascending
RECURSIVE Where(_, _)
Where(counts, i) ==
    IF i > Len(counts) THEN <<>>
    ELSE (IF counts[i] # 0 THEN <<i - 1>> ELSE <<>>) \o Where(counts, i + 1)

Splits(array) == Where(NanCount(array), 1)

\* array[lo:hi]
Slice(array, lo, hi) == SubSeq(array, lo + 1, hi)

\* np.split(array, idx): cut before each 0-based index of idx
RECURSIVE NpSplitFrom(_, _, _)
NpSplitFrom(array, idx, start) ==
    IF idx = <<>> THEN <<Slice(array, start, Len(array))>>
    ELSE <<Slice(array, start, Head(idx))>> \o NpSplitFrom(array, Tail(idx), Head(idx))

NpSplit(array, idx) == NpSplitFrom(array, idx, 0)

\* mutation: cut at the NaN row instead of after it
SegmentAtNan(array) ==
    IF Len(Splits(array)) # 0 THEN NpSplit(array, Splits(array)) ELSE <<array>>

\* np.split(array, splits+1) if len(splits) else [array]
Segment(array) ==
    LET splits == Splits(array)
    IN  IF Len(splits) # 0
        THEN NpSplit(array, [k \in 1..Len(splits) |-> splits[k] + 1])
        ELSE <<array>>

\* if j != (len(arrays)-1): arr = arr[:-1]   (j is 1-based here)
DropNan(arrays, j) ==
    IF j # Len(arrays) THEN SubSeq(arrays[j], 1, Len(arrays[j]) - 1) ELSE arrays[j]

\* the sub-arrays a builder iterates over
Parts(array) ==
    LET arrays == Segment(array)
    IN  [j \in 1..Len(arrays) |-> DropNan(arrays, j)]

(***************************************************************************)
(* path_to_geom and polygon_to_geom, array datatype.                       *)
(***************************************************************************)
\* if len(path) < 2: continue / lines.append(LineString(path[:, :2]))
PathPart(arr) ==
    IF Len(arr) < 2 THEN <<>> ELSE <<LineString(Cols2(arr))>>

\* mutation: skip_invalid is ignored, a short part is always dropped
PolyPartSkipping(arr, skip_invalid) ==
    IF Len(arr) < 3 THEN <<>> ELSE <<Polygon(Cols2(arr), <<>>)>>

\* geom = Polygon; if len(path) < 3: (continue | geom = LineString); lines.append(geom(path[:, :2]))
PolyPart(arr, skip_invalid) ==
    IF Len(arr) < 3
    THEN IF skip_invalid THEN <<>> ELSE <<LineString(Cols2(arr))>>
    ELSE <<Polygon(Cols2(arr), <<>>)>>

\* s[1] \o s[2] \o ... : the appends of a loop, in order
RECURSIVE Flatten(_)
Flatten(s) == IF s = <<>> THEN <<>> ELSE Head(s) \o Flatten(Tail(s))

\* the lines one array of path.split() appends
PathLines(array) ==
    LET paths_ == Segment(array)
    IN  Flatten([j \in 1..Len(paths_) |-> PathPart(DropNan(paths_, j))])

\* the geometries one array of poly.split() appends
PolyLines(array, skip_invalid) ==
    LET paths_ == Segment(array)
    IN  Flatten([j \in 1..Len(paths_) |-> PolyPart(DropNan(paths_, j), skip_invalid)])

path_to_geom(arrays, multi) ==
    LET lines == Flatten([i \in 1..Len(arrays) |-> PathLines(arrays[i])])
    IN  IF multi THEN MultiLineString(lines) ELSE lines

polygon_to_geom(arrays, multi, skip_invalid) ==
    LET lines == Flatten([i \in 1..Len(arrays) |-> PolyLines(arrays[i], skip_invalid)])
    IN  IF multi THEN MultiPolygon(lines) ELSE lines

(***************************************************************************)
(* Feature dictionaries (element.split(datatype='columns')).               *)
(***************************************************************************)
XDim == "Longitude"
YDim == "Latitude"
VDim == "value"

Columns(array, v) ==
    [k \in {XDim, YDim, VDim} |->
        IF k = XDim THEN [i \in 1..Len(array) |-> array[i][1]]
        ELSE IF k = YDim THEN [i \in 1..Len(array) |-> array[i][2]]
        ELSE v]

\* the columns of the features of an element; feature i has the value 10 * i
Features(arrays) == [i \in 1..Len(arrays) |-> Columns(arrays[i], 10 * i)]

\* the dictionary left by d.pop(k)
Pop(d, k) == [kk \in DOMAIN d \ {k} |-> d[kk]]

\* d[k] = v, and dict(d, k=v)
SetItem(d, k, v) == [kk \in DOMAIN d \cup {k} |-> IF kk = k THEN v ELSE d[kk]]

ColumnStack(xs, ys) == [i \in 1..Len(xs) |-> <<xs[i], ys[i]>>]

\* np.column_stack([feature.pop(xdim.name), feature.pop(ydim.name)])
FeatureArray(feature) == ColumnStack(feature[XDim], feature[YDim])
Popped(feature) == Pop(Pop(feature, XDim), YDim)

(***************************************************************************)
(* path_to_geom_dicts.  geom is a local of the function: it is bound by    *)
(* the first iteration that assigns it and keeps its value afterwards.     *)
(***************************************************************************)
Unbound == Geometry("unbound", <<>>, <<>>, <<>>)

SubPaths(feature) == PathLines(FeatureArray(feature))

\* the binding of geom after the if/elif of one iteration
GeomAfter(subpaths, geom) ==
    IF Len(subpaths) = 1 THEN subpaths[1]
    ELSE IF Len(subpaths) # 0 THEN MultiLineString(subpaths)
    ELSE geom

\* the iterations from feature i on; reading the unbound geom raises
RECURSIVE PathDictLoop(_, _, _, _)
PathDictLoop(features, i, geom, geoms) ==
    IF i > Len(features) THEN [ret |-> geoms, exc |-> ""]
    ELSE LET g == GeomAfter(SubPaths(features[i]), geom)
         IN  IF g = Unbound
             THEN [ret |-> <<>>, exc |-> "UnboundLocalError"]
             ELSE PathDictLoop(features, i + 1, g,
                               Append(geoms, SetItem(Popped(features[i]), "geometry", g)))

path_to_geom_dicts(features) == PathDictLoop(features, 1, Unbound, <<>>)

(***************************************************************************)
(* polygons_to_geom_dicts.                                                 *)
(***************************************************************************)
\* the k-th hole ring declared for part j of feature i
HoleRing(i, j, k) == [m \in 1..3 |-> <<1000 * i + 100 * j + 10 * k + m, 0>>]
HoleCount == 2

\* mutation: every part after the first takes the hole list of the part before it
SubHolesShifted(holes_i) ==
    [j \in 1..Len(holes_i) |->
        LET hs == holes_i[IF j = 1 THEN 1 ELSE j - 1]
        IN  [k \in 1..Len(hs) |-> LinearRing(hs[k])]]

\* [[LinearRing(h) for h in hs] for hs in holes[i]]
SubHoles(holes_i) ==
    [j \in 1..Len(holes_i) |-> [k \in 1..Len(holes_i[j]) |-> LinearRing(holes_i[j][k])]]

\* the polygon built from the part arr (at least 3 rows), hs its hole rings
SubPoly(arr, nsplits, hs) ==
    IF nsplits = 0
    THEN Polygon(arr, hs)
    ELSE Polygon(Exterior(Polygon(arr, <<>>)).coords, hs)

\* the inner loop from part j on; st holds the locals subpolys and invalid,
\* c the values fixed before the loop
RECURSIVE SubPolyLoop(_, _, _)
SubPolyLoop(c, j, st) ==
    IF j > Len(c.arrays) THEN st
    ELSE LET arr == DropNan(c.arrays, j)
         IN  IF Len(arr) < 3
             THEN IF c.skip_invalid
                  THEN SubPolyLoop(c, j + 1, st)
                  ELSE SubPolyLoop(c, j + 1,
                           [subpolys |-> Append(st.subpolys, LineString(arr)),
                            invalid |-> TRUE])
             ELSE SubPolyLoop(c, j + 1,
                      [subpolys |-> Append(st.subpolys,
                                        SubPoly(arr, c.nsplits,
                                                IF c.has_holes THEN c.subholes[j] ELSE <<>>)),
                       invalid |-> st.invalid])

SubPolys(feature, has_holes, holes_i, skip_invalid) ==
    LET array == FeatureArray(feature)
    IN  SubPolyLoop([arrays |-> Segment(array), nsplits |-> Len(Splits(array)),
                     has_holes |-> has_holes,
                     subholes |-> IF has_holes THEN SubHoles(holes_i) ELSE <<>>,
                     skip_invalid |-> skip_invalid],
                    1, [subpolys |-> <<>>, invalid |-> FALSE])

\* mutation: an exploded feature is merged into one record like any other
FeatureRecordsMerged(polygon, st) ==
    IF Len(st.subpolys) = 1
    THEN <<SetItem(polygon, "geometry", st.subpolys[1])>>
    ELSE IF Len(st.subpolys) # 0
    THEN <<SetItem(polygon, "geometry", MultiPolygon(st.subpolys))>>
    ELSE <<>>

\* the records one feature adds to polys; polygon is the feature without its coordinates
FeatureRecords(polygon, st) ==
    IF st.invalid
    THEN [k \in 1..Len(st.subpolys) |-> SetItem(polygon, "geometry", st.subpolys[k])]
    ELSE IF Len(st.subpolys) = 1
    THEN <<SetItem(polygon, "geometry", st.subpolys[1])>>
    ELSE IF Len(st.subpolys) # 0
    THEN <<SetItem(polygon, "geometry", MultiPolygon(st.subpolys))>>
    ELSE <<>>

\* the locals of every iteration, and the list returned
polygons_to_geom_dicts(features, has_holes, holes, skip_invalid) ==
    LET sts == [i \in 1..Len(features) |->
                   SubPolys(features[i], has_holes,
                            IF has_holes THEN holes[i] ELSE <<>>, skip_invalid)]
    IN  [subs |-> sts,
         ret |-> Flatten([i \in 1..Len(features) |-> FeatureRecords(Popped(features[i]), sts[i])])]

\* holes(): for every feature one list of hole rings per split part.  Every part
\* declares HoleCount rings, but for at most one part (the bare-th of the element),
\* which declares none
HoleChoices(arrays) ==
    LET n == [i \in 1..Len(arrays) |-> Len(Segment(arrays[i]))]
    IN  {[i \in 1..Len(arrays) |->
            [j \in 1..n[i] |->
                IF SumSeq(SubSeq(n, 1, i - 1)) + j = bare THEN <<>>
                ELSE [k \in 1..HoleCount |-> HoleRing(i, j, k)]]] :
         bare \in 0..SumSeq(n)}

(***************************************************************************)
(* geom_to_arr and geom_to_array.                                          *)
(***************************************************************************)
Point(x, y) == Geometry("Point", <<<<x, y>>>>, <<>>, <<>>)
Column(array, c) == [i \in 1..Len(array) |-> array[i][c]]

\* geom.array_interface_base['data']: the coordinates as one flat buffer
FlatData(geom) == Flatten(geom.coords)

geom_to_arr(geom) ==
    LET data == FlatData(geom)
        arr == IF (Len(data) % 2) # 0 THEN SubSeq(data, 1, Len(data) - 1) ELSE data
    IN  [i \in 1..(Len(arr) \div 2) |-> <<arr[2 * i - 1], arr[2 * i]>>]

\* mutation: the NaN appended after the last part is kept
AllChunks(xs) == xs

\* xs[:-1]
ButLast(xs) == SubSeq(xs, 1, Len(xs) - 1)

\* the list xs (c = 1) or ys (c = 2) of the loop over the parts of a multi-geometry
ChunkList(geoms, c) ==
    Flatten([k \in 1..Len(geoms) |-> <<Column(geom_to_arr(geoms[k]), c), <<NaN>>>>])

\* np.concatenate(xs[:-1]) if xs else np.array([])
Concatenated(chunks) == IF chunks # <<>> THEN Flatten(ButLast(chunks)) ELSE <<>>

geom_to_array(geom) ==
    IF geom.type = "Point" THEN <<<<geom.coords[1][1], geom.coords[1][2]>>>>
    ELSE IF geom.type = "Polygon"
    THEN ColumnStack(Column(Exterior(geom).coords, 1), Column(Exterior(geom).coords, 2))
    ELSE IF geom.type \in {"LineString", "LinearRing"} THEN geom_to_arr(geom)
    ELSE ColumnStack(Concatenated(ChunkList(geom.geoms, 1)),
                     Concatenated(ChunkList(geom.geoms, 2)))

(***************************************************************************)
(* The calls of the geometry functions.                                    *)
(***************************************************************************)
Idle ==
    /\ op = "idle"
    /\ inp = <<>>
    /\ paths = <<>>
    /\ subs = <<>>
    /\ loc = <<>>
    /\ out = <<>>
    /\ exc = ""

Return ==
    /\ op # "idle"
    /\ op' = "idle"
    /\ inp' = <<>>
    /\ paths' = <<>>
    /\ subs' = <<>>
    /\ loc' = <<>>
    /\ out' = <<>>
    /\ exc' = ""

CallPathToGeom ==
    /\ op = "idle"
    /\ \E al \in ArrayLists(NanRows), multi \in BOOLEAN, wide \in BOOLEAN :
        LET arrays == IF wide THEN [i \in 1..Len(al) |-> Widen(al[i])] ELSE al
        IN  /\ op' = "path_to_geom"
            /\ inp' = [arrays |-> arrays, multi |-> multi]
            /\ paths' = [i \in 1..Len(arrays) |-> Parts(arrays[i])]
            /\ subs' = [i \in 1..Len(arrays) |-> PathLines(arrays[i])]
            /\ out' = path_to_geom(arrays, multi)
            /\ exc' = ""
            /\ loc' = <<>>

CallPolygonToGeom ==
    /\ op = "idle"
    /\ \E arrays \in ArrayLists(NanRows), multi \in BOOLEAN, skip_invalid \in BOOLEAN :
            /\ op' = "polygon_to_geom"
            /\ inp' = [arrays |-> arrays, multi |-> multi, skip_invalid |-> skip_invalid]
            /\ paths' = [i \in 1..Len(arrays) |-> Parts(arrays[i])]
            /\ subs' = [i \in 1..Len(arrays) |-> PolyLines(arrays[i], skip_invalid)]
            /\ out' = polygon_to_geom(arrays, multi, skip_invalid)
            /\ exc' = ""
            /\ loc' = <<>>

\* geom_to_array on the MultiLineString path_to_geom returned, or on the first
\* member of the geometry path_to_geom or polygon_to_geom returned
CallGeomToArray ==
    /\ op \in {"path_to_geom", "polygon_to_geom"}
    /\ inp.multi
    /\ \E g \in (IF op = "path_to_geom" THEN {out} ELSE {}) \cup
                {out.geoms[k] : k \in (1..Len(out.geoms)) \cap {1}} :
        /\ op' = "geom_to_array"
        /\ inp' = [arrays |-> inp.arrays, geom |-> g]
        /\ out' = geom_to_array(g)
        /\ UNCHANGED <<paths, subs, loc, exc>>

CallPathToGeomDicts ==
    /\ op = "idle"
    /\ \E arrays \in ArrayLists({<<NaN, NaN>>}) :
        LET features == Features(arrays)
        IN  /\ op' = "path_to_geom_dicts"
            /\ inp' = [features |-> features]
            /\ paths' = [i \in 1..Len(features) |-> Parts(FeatureArray(features[i]))]
            /\ subs' = [i \in 1..Len(features) |-> SubPaths(features[i])]
            /\ \E r \in {path_to_geom_dicts(features)} :
                /\ out' = r.ret
                /\ exc' = r.exc
            /\ loc' = <<>>

CallPolygonsToGeomDicts ==
    /\ op = "idle"
    /\ \E arrays \in ArrayLists({<<NaN, NaN>>}), skip_invalid \in BOOLEAN, has_holes \in BOOLEAN :
       \E holes \in (IF has_holes THEN HoleChoices(arrays) ELSE {<<>>}) :
        LET features == Features(arrays)
        IN  /\ op' = "polygons_to_geom_dicts"
            /\ inp' = [features |-> features, has_holes |-> has_holes, holes |-> holes,
                       skip_invalid |-> skip_invalid]
            /\ paths' = [i \in 1..Len(features) |-> Parts(FeatureArray(features[i]))]
            /\ \E r \in {polygons_to_geom_dicts(features, has_holes, holes, skip_invalid)} :
                /\ subs' = r.subs
                /\ out' = r.ret
            /\ exc' = ""
            /\ loc' = <<>>

NextGeom ==
    \/ CallPathToGeom
    \/ CallPolygonToGeom
    \/ CallGeomToArray
    \/ CallPathToGeomDicts
    \/ CallPolygonsToGeomDicts
    \/ Return

SpecGeom == Idle /\ [][NextGeom]_vars

(***************************************************************************)
(* wrap_lons.  Coordinates are integers (degrees, or the unit of the       *)
(* projection); float64 holds every integer of the model exactly.          *)
(***************************************************************************)
MaxLon == 1000     \* longitudes handed to wrap_lons lie in -MaxLon..MaxLon

\* mutation: the base is not added back
wrap_lons_unbased(lons, base, period) == (lons - base + period * 2) % period

\* ((lons - base + period * 2) % period) + base; Python's % takes the sign of the divisor
wrap_lons(lons, base, period) == ((lons - base + period * 2) % period) + base

WrapBase == -180
WrapPeriod == 360

CallWrapLons ==
    /\ op = "idle"
    /\ \E lons \in (-MaxLon)..MaxLon :
        /\ op' = "wrap_lons"
        /\ inp' = [lons |-> lons, base |-> WrapBase, period |-> WrapPeriod]
        /\ out' = wrap_lons(lons, WrapBase, WrapPeriod)
        /\ exc' = ""
        /\ UNCHANGED <<paths, subs, loc>>

NextWrap ==
    \/ CallWrapLons
    \/ Return

SpecWrap == Idle /\ [][NextWrap]_vars

(***************************************************************************)
(* project_extents.  A CRS is what the function reads of it: whether it is *)
(* cylindrical, its x and y limits and its boundary, here the rectangle of *)
(* the limits.  The tolerance and the corners are chosen so that no domain *)
(* polygon has zero area: what the geometry library makes of a collapsed   *)
(* ring is not the function's doing.                                       *)
(***************************************************************************)
PlateCarree == [name |-> "PlateCarree", cylindrical |-> TRUE,
                x_limits |-> <<-180, 180>>, y_limits |-> <<-90, 90>>]
Planar == [name |-> "Planar", cylindrical |-> FALSE,
           x_limits |-> <<-185, 185>>, y_limits |-> <<-92, 92>>]
CRSs == {PlateCarree, Planar}
Xs == {-190, -180, 0, 1, 180, 190}
Ys == {-95, -90, 0, 1, 90, 95}
Tols == {1}
Samples == 10000

Min(S) == CHOOSE x \in S : \A y \in S : x <= y
Max(S) == -Min({-x : x \in S})

\* np.linspace(start, stop, num), every sample rounded down to the grid of the model
LinSpace(start, stop, num) ==
    {start + (i * (stop - start)) \div (num - 1) : i \in 0..(num - 1)}

\* if v1 < c1: v1 = c1 / if v2 > c2: v2 = c2
Clamp(v1, v2, limits) ==
    <<IF v1 < limits[1] THEN limits[1] ELSE v1, IF v2 > limits[2] THEN limits[2] ELSE v2>>

\* the longitudes of the box after the wrap (cylindrical) or the clamp
XRange(x1, x2, src_proj) ==
    IF src_proj.cylindrical
    THEN LET lons == {wrap_lons(x, WrapBase, WrapPeriod) : x \in LinSpace(x1, x2, Samples)}
         IN  <<Min(lons), Max(lons)>>
    ELSE Clamp(x1, x2, src_proj.x_limits)

\* x1, y1, x2, y2 as they are when the domain polygon is built
DomainBox(extents, src_proj, tol) ==
    LET ys == Clamp(extents[2], extents[4], src_proj.y_limits)
        xs == XRange(extents[1] + tol, extents[3] - tol, src_proj)
    IN  <<xs[1], ys[1] + tol, xs[2], ys[2] - tol>>

Least(a, b) == IF a <= b THEN a ELSE b
Most(a, b) == IF a >= b THEN a ELSE b

\* Polygon(src_proj.boundary).intersection(domain).bounds, the domain being the ring
\* through the corners of box: the bounds of the common points, () when there are none
IntersectionBounds(limits_x, limits_y, box) ==
    LET minx == Most(Least(box[1], box[3]), limits_x[1])
        maxx == Least(Most(box[1], box[3]), limits_x[2])
        miny == Most(Least(box[2], box[4]), limits_y[1])
        maxy == Least(Most(box[2], box[4]), limits_y[2])
    IN  IF minx > maxx \/ miny > maxy THEN <<>> ELSE <<minx, miny, maxx, maxy>>

\* src_proj == dest_proj: the bounds of boundary_poly.intersection(domain_in_src_proj)
SameCrsBounds(src_proj, box) == IntersectionBounds(src_proj.x_limits, src_proj.y_limits, box)

\* src_proj != dest_proj: dest_proj.project_geometry is the projection library's; its
\* result is the term it is applied to, or it raises ValueError, which is raised anew
Projected(src_proj, dest_proj, box) ==
    [project_geometry |-> [eroded_boundary_of |-> src_proj.name, domain |-> box],
     src |-> src_proj.name, dest |-> dest_proj.name]

CallProjectExtents ==
    /\ op = "idle"
    /\ \E x1 \in Xs, x2 \in Xs, y1 \in Ys, y2 \in Ys, tol \in Tols, src_proj \in CRSs, dest_proj \in CRSs :
        /\ x1 <= x2
        /\ y1 <= y2
        /\ op' = "project_extents"
        /\ inp' = [extents |-> <<x1, y1, x2, y2>>, src_proj |-> src_proj,
                   dest_proj |-> dest_proj, tol |-> tol]
        /\ loc' = DomainBox(<<x1, y1, x2, y2>>, src_proj, tol)
        /\ IF src_proj # dest_proj
           THEN \/ /\ out' = Projected(src_proj, dest_proj, loc')
                   /\ exc' = ""
                \/ /\ out' = <<>>
                   /\ exc' = "ValueError"
           ELSE /\ out' = SameCrsBounds(src_proj, loc')
                /\ exc' = ""
        /\ UNCHANGED <<paths, subs>>

NextExtents ==
    \/ CallProjectExtents
    \/ Return

SpecExtents == Idle /\ [][NextExtents]_vars

(***************************************************************************)
(* proj_to_cartopy.  The argument is what check_crs made of it: None, a    *)
(* latlong Proj, or a projected Proj whose srs (after the GDAL export when *)
(* GDAL is there) is the string that is split.  srs is given as the        *)
(* pieces of srs.split('+'), each piece as the fields of piece.split('='), *)
(* blanks stripped.                                                        *)
(***************************************************************************)
MaxTokens == 3     \* pieces of one srs

Tokens == {<<"proj", "tmerc">>, <<"proj", "lcc">>, <<"proj", "merc">>, <<"proj", "utm">>,
           <<"proj", "stere">>, <<"lat_1", "30">>, <<"lat_2", "60">>, <<"x_0", "500">>,
           <<"a", "6378137">>, <<"zone", "33">>, <<"no_defs">>, <<"k", "1", "2">>}
SrsSet == UNION {[1..n -> Tokens] : n \in 0..MaxTokens}
ProjKinds == {"None", "latlong", "projected"}

Numerals == {"30", "60", "500", "6378137", "33", "1", "2"}
NumberOf(v) ==
    CASE v = "30" -> 30 [] v = "60" -> 60 [] v = "500" -> 500 [] v = "6378137" -> 6378137
      [] v = "33" -> 33 [] v = "1" -> 1 [] v = "2" -> 2

\* try: v = float(v) / except: pass.  A number is [f |-> n], a text [s |-> v]
ToFloat(v) == IF v \in Numerals THEN [f |-> NumberOf(v)] ELSE [s |-> v]
Text(v) == [s |-> v]

km_proj == [k \in {"lon_0", "lat_0", "x_0", "y_0", "k", "zone"} |->
              CASE k = "lon_0" -> "central_longitude"
                [] k = "lat_0" -> "central_latitude"
                [] k = "x_0" -> "false_easting"
                [] k = "y_0" -> "false_northing"
                [] k = "k" -> "scale_factor"
                [] k = "zone" -> "zone"]
km_globe == [k \in {"a", "b"} |-> IF k = "a" THEN "semimajor_axis" ELSE "semiminor_axis"]
km_std == [k \in {"lat_1", "lat_2"} |-> k]

NoDict == [k \in {} |-> 0]
NoClass == "unbound"

\* mutation: a proj value that is not recognised selects PlateCarree
SelectClassOrDefault(cl, v) ==
    IF v = Text("utm") THEN "UTM"
    ELSE IF v = Text("merc") THEN "Mercator"
    ELSE IF v = Text("lcc") THEN "LambertConformal"
    ELSE IF v = Text("tmerc") THEN "TransverseMercator"
    ELSE "PlateCarree"

\* the binding of cl after the four ifs on v; v equals at most one of the values
SelectClass(cl, v) ==
    IF v = Text("utm") THEN "UTM"
    ELSE IF v = Text("merc") THEN "Mercator"
    ELSE IF v = Text("lcc") THEN "LambertConformal"
    ELSE IF v = Text("tmerc") THEN "TransverseMercator"
    ELSE cl

\* one pass of the loop body; st holds cl, kw_proj, kw_globe and kw_std
ParseToken(st, s) ==
    IF Len(s) # 2 THEN st
    ELSE LET k == s[1]
             v == ToFloat(s[2])
         IN  [cl |-> IF k = "proj" THEN SelectClass(st.cl, v) ELSE st.cl,
              kw_proj |-> IF k \in DOMAIN km_proj THEN SetItem(st.kw_proj, km_proj[k], v)
                          ELSE st.kw_proj,
              kw_globe |-> IF k \in DOMAIN km_globe THEN SetItem(st.kw_globe, km_globe[k], v)
                           ELSE st.kw_globe,
              kw_std |-> IF k \in DOMAIN km_std THEN SetItem(st.kw_std, km_std[k], v)
                         ELSE st.kw_std]

RECURSIVE ParseLoop(_, _, _)
ParseLoop(srs, i, st) ==
    IF i > Len(srs) THEN st ELSE ParseLoop(srs, i + 1, ParseToken(st, srs[i]))

Parsed(srs) ==
    ParseLoop(srs, 1, [cl |-> NoClass, kw_proj |-> NoDict, kw_globe |-> NoDict, kw_std |-> NoDict])

\* if kw_std: kw_proj['standard_parallels'] = (kw_std['lat_1'], kw_std['lat_2'])
StdParallels(kw_proj, kw_std) ==
    IF DOMAIN kw_std # {}
    THEN IF {"lat_1", "lat_2"} \subseteq DOMAIN kw_std
         THEN [kw |-> SetItem(kw_proj, "standard_parallels", <<kw_std["lat_1"], kw_std["lat_2"]>>),
               exc |-> ""]
         ELSE [kw |-> kw_proj, exc |-> "KeyError"]
    ELSE [kw |-> kw_proj, exc |-> ""]

\* globe = None / if kw_globe: globe = ccrs.Globe(**kw_globe)
Globe(kw_globe) == IF DOMAIN kw_globe # {} THEN [cls |-> "Globe", kw |-> kw_globe] ELSE "None"

\* kw_proj.pop('false_easting', None); kw_proj.pop('false_northing', None)
MercatorPop(cl, kw_proj) ==
    IF cl = "Mercator" THEN Pop(Pop(kw_proj, "false_easting"), "false_northing") ELSE kw_proj

\* the locals when the function ends, what it returns and what it raises
proj_to_cartopy(kind, srs) ==
    IF kind = "None" THEN [loc |-> <<>>, ret |-> <<>>, exc |-> "AttributeError"]
    ELSE IF kind = "latlong"
    THEN [loc |-> <<>>, ret |-> [cls |-> "PlateCarree", globe |-> "None", kw |-> NoDict], exc |-> ""]
    ELSE LET st == Parsed(srs)
             std == StdParallels(st.kw_proj, st.kw_std)
         IN  IF std.exc # "" THEN [loc |-> st, ret |-> <<>>, exc |-> std.exc]
             ELSE IF st.cl = NoClass THEN [loc |-> st, ret |-> <<>>, exc |-> "UnboundLocalError"]
             ELSE [loc |-> st,
                   ret |-> [cls |-> st.cl, globe |-> Globe(st.kw_globe), kw |-> MercatorPop(st.cl, std.kw)],
                   exc |-> ""]

CallProjToCartopy ==
    /\ op = "idle"
    /\ \E kind \in ProjKinds, srs \in SrsSet :
        /\ op' = "proj_to_cartopy"
        /\ inp' = [kind |-> kind, srs |-> srs]
        /\ \E r \in {proj_to_cartopy(kind, srs)} :
            /\ loc' = r.loc
            /\ out' = r.ret
            /\ exc' = r.exc
        /\ UNCHANGED <<paths, subs>>

NextProj ==
    \/ CallProjToCartopy
    \/ Return

SpecProj == Idle /\ [][NextProj]_vars

(***************************************************************************)
(* Properties of the geometry functions.                                   *)
(***************************************************************************)
IsNanRow(row) == IsNan(row[1]) \/ IsNan(row[2])
NotNanRow(row) == ~IsNanRow(row)
HasNanRow(array) == \E k \in 1..Len(array) : IsNanRow(array[k])
IsLine(part) == Len(part) >= 2
IsRing(part) == Len(part) >= 3

\* the array of feature i of the call in the state
InputArray(i) ==
    IF op \in {"path_to_geom_dicts", "polygons_to_geom_dicts"}
    THEN ColumnStack(inp.features[i][XDim], inp.features[i][YDim])
    ELSE inp.arrays[i]

\* C1: path_to_geom_dicts returns, and record i holds the geometry of the rows of
\* feature i alone: none when no part has 2 points, the LineString of the only
\* such part, or the MultiLineString of all such parts in part order.
C1_OwnGeometry ==
    op = "path_to_geom_dicts" =>
        /\ exc = ""
        /\ Len(out) = Len(inp.features)
        /\ \A i \in 1..Len(inp.features) :
            LET valid == SelectSeq(paths[i], IsLine)
            IN  /\ Len(valid) = 0 => "geometry" \notin DOMAIN out[i]
                /\ Len(valid) = 1 => /\ "geometry" \in DOMAIN out[i]
                                     /\ out[i]["geometry"] = LineString(valid[1])
                /\ Len(valid) >= 2 =>
                    /\ "geometry" \in DOMAIN out[i]
                    /\ out[i]["geometry"] =
                           MultiLineString([k \in 1..Len(valid) |-> LineString(valid[k])])

\* an array of parts of at least 2 rows each, single NaN rows between them, none
\* leading or trailing
RoundTripArray(a) ==
    /\ Len(a) >= 1
    /\ NotNanRow(a[1])
    /\ NotNanRow(a[Len(a)])
    /\ \A k \in 1..(Len(a) - 1) : ~(IsNanRow(a[k]) /\ IsNanRow(a[k + 1]))
    /\ \A k \in 1..Len(a) :
        NotNanRow(a[k]) =>
            \/ k > 1 /\ NotNanRow(a[k - 1])
            \/ k < Len(a) /\ NotNanRow(a[k + 1])

RoundTripCase ==
    /\ op = "geom_to_array"
    /\ inp.geom.type = "MultiLineString"
    /\ Len(inp.arrays) = 1
    /\ RoundTripArray(inp.arrays[1])

\* C4: geom_to_array(path_to_geom(array)) has the rows of the array in their
\* places, and a NaN row exactly where the array has one: k-1 of them for k
\* parts, none leading or trailing.
C4_RoundTrip ==
    RoundTripCase =>
        LET a == inp.arrays[1]
        IN  /\ Len(out) = Len(a)
            /\ \A k \in 1..Len(a) :
                IF IsNanRow(a[k]) THEN out[k] = <<NaN, NaN>>
                ELSE out[k] = <<a[k][1], a[k][2]>>
            /\ Len(SelectSeq(out, IsNanRow)) = Len(paths[1]) - 1
            /\ NotNanRow(out[1])
            /\ NotNanRow(out[Len(out)])

C4_Witness ==
    /\ RoundTripCase
    /\ HasNanRow(inp.arrays[1])
    /\ Len(out) = Len(inp.arrays[1])

\* C5: the sub-arrays a builder iterates over contain no NaN row, together they
\* are the rows of the array without its NaN rows, in order, and an array
\* without NaN rows is its own single sub-array.
C5_Segmentation ==
    op # "idle" =>
        \A i \in 1..Len(paths) :
            /\ \A j \in 1..Len(paths[i]) : ~HasNanRow(paths[i][j])
            /\ Flatten(paths[i]) = SelectSeq(InputArray(i), NotNanRow)
            /\ ~HasNanRow(InputArray(i)) => paths[i] = <<InputArray(i)>>

\* an array with a leading NaN row, two NaN rows in a row and rows after them
C5_Witness ==
    /\ op = "path_to_geom"
    /\ Len(paths) = 1
    /\ Len(inp.arrays[1]) >= 5
    /\ IsNanRow(inp.arrays[1][1])
    /\ IsNanRow(inp.arrays[1][2])
    /\ NotNanRow(inp.arrays[1][3])
    /\ Len(paths[1]) = 3
    /\ Len(paths[1][3]) >= 3

\* what the claim lets one part contribute to a line builder / a polygon builder
LineShare(part) ==
    IF Len(part) < 2 THEN <<>> ELSE <<[type |-> "LineString", coords |-> Cols2(part)]>>
PolyShare(part, skip_invalid) ==
    IF Len(part) >= 3 THEN <<[type |-> "Polygon", coords |-> Cols2(part)]>>
    ELSE IF skip_invalid THEN <<>>
    ELSE <<[type |-> "LineString", coords |-> Cols2(part)]>>
Shape(geoms) == [k \in 1..Len(geoms) |-> [type |-> geoms[k].type, coords |-> geoms[k].coords]]

\* C6: per feature, the geometries appended are what the parts contribute, in
\* part order: a LineString per part of 2 rows or more in path_to_geom; in
\* polygon_to_geom and polygons_to_geom_dicts a Polygon per part of 3 rows or
\* more and, for a shorter part, nothing (skip_invalid) or its LineString.
C6_DegenerateParts ==
    /\ op = "path_to_geom" =>
        /\ \A i \in 1..Len(paths) :
            Shape(subs[i]) = Flatten([j \in 1..Len(paths[i]) |-> LineShare(paths[i][j])])
        /\ (IF inp.multi THEN out.geoms ELSE out) = Flatten(subs)
    /\ op = "polygon_to_geom" =>
        /\ \A i \in 1..Len(paths) :
            Shape(subs[i]) =
                Flatten([j \in 1..Len(paths[i]) |-> PolyShare(paths[i][j], inp.skip_invalid)])
        /\ (IF inp.multi THEN out.geoms ELSE out) = Flatten(subs)
    /\ op = "polygons_to_geom_dicts" =>
        \A i \in 1..Len(paths) :
            Shape(subs[i].subpolys) =
                Flatten([j \in 1..Len(paths[i]) |-> PolyShare(paths[i][j], inp.skip_invalid)])

\* a short part between two rings, kept as a LineString
C6_Witness ==
    /\ op = "polygon_to_geom"
    /\ ~inp.skip_invalid
    /\ ~inp.multi
    /\ Len(paths) = 1
    /\ Len(paths[1]) = 3
    /\ Len(paths[1][1]) = 3
    /\ Len(paths[1][2]) = 2
    /\ Len(paths[1][3]) = 3
    /\ Len(out) = 3
    /\ out[2].type = "LineString"

\* the records the claim expects of feature i
Degraded(i) == ~inp.skip_invalid /\ \E j \in 1..Len(paths[i]) : Len(paths[i][j]) < 3
RecordCount(i) ==
    IF Degraded(i) THEN Len(paths[i])
    ELSE IF Len(SelectSeq(paths[i], IsRing)) >= 1 THEN 1 ELSE 0
RecordCounts == [i \in 1..Len(paths) |-> RecordCount(i)]
\* the k-th record of feature i
RecordOf(i, k) == out[SumSeq(SubSeq(RecordCounts, 1, i - 1)) + k]
Attributes(i) == DOMAIN inp.features[i] \ {XDim, YDim}

\* C7: a feature with a degraded part gives one record per part, holding that
\* part's geometry; any other feature gives one record, a Polygon for one valid
\* part and a MultiPolygon for several, or none without a valid part.  A record
\* has the feature's other attributes unchanged and no coordinate column.
C7_Explode ==
    op = "polygons_to_geom_dicts" =>
        /\ Len(out) = SumSeq(RecordCounts)
        /\ \A i \in 1..Len(paths) :
            /\ \A k \in 1..RecordCount(i) :
                /\ DOMAIN RecordOf(i, k) = Attributes(i) \cup {"geometry"}
                /\ \A a \in Attributes(i) : RecordOf(i, k)[a] = inp.features[i][a]
            /\ Degraded(i) =>
                \A k \in 1..Len(paths[i]) :
                    /\ RecordOf(i, k)["geometry"].coords = paths[i][k]
                    /\ RecordOf(i, k)["geometry"].type =
                           (IF Len(paths[i][k]) < 3 THEN "LineString" ELSE "Polygon")
            /\ ~Degraded(i) /\ RecordCount(i) = 1 =>
                LET valid == SelectSeq(paths[i], IsRing)
                    g == RecordOf(i, 1)["geometry"]
                IN  IF Len(valid) = 1
                    THEN g.type = "Polygon" /\ g.coords = valid[1]
                    ELSE /\ g.type = "MultiPolygon"
                         /\ Len(g.geoms) = Len(valid)
                         /\ \A k \in 1..Len(valid) :
                             g.geoms[k].type = "Polygon" /\ g.geoms[k].coords = valid[k]

\* two features: the first explodes into a ring and a line, the second is merged
C7_Witness ==
    /\ op = "polygons_to_geom_dicts"
    /\ ~inp.skip_invalid
    /\ Len(paths) = 2
    /\ Len(paths[1]) = 2
    /\ Len(paths[1][1]) = 3
    /\ Len(paths[1][2]) = 2
    /\ Len(paths[2]) = 1
    /\ Len(paths[2][1]) = 3
    /\ Len(out) = 3
    /\ out[2]["geometry"].type = "LineString"
    /\ out[3]["geometry"].type = "Polygon"
    /\ out[3][VDim] = 20

\* the positions, in order, of the split parts of feature i with at least 3 rows
RECURSIVE RingPositions(_, _)
RingPositions(i, j) ==
    IF j > Len(paths[i]) THEN <<>>
    ELSE (IF IsRing(paths[i][j]) THEN <<j>> ELSE <<>>) \o RingPositions(i, j + 1)

IsPolygon(g) == g.type = "Polygon"
\* the Polygons the loop built for feature i, and those a returned record holds
BuiltPolygons(i) == SelectSeq(subs[i].subpolys, IsPolygon)
HeldPolygons(rec) ==
    IF rec["geometry"].type = "MultiPolygon" THEN rec["geometry"].geoms
    ELSE SelectSeq(<<rec["geometry"]>>, IsPolygon)
\* the hole rings declared for split part j of feature i
DeclaredRings(i, j) ==
    [k \in 1..Len(inp.holes[i][j]) |-> LinearRing(inp.holes[i][j][k])]

C2_BoxNotInverted ==
    op = "project_extents" /\ inp.extents[1] <= inp.extents[3] /\ inp.extents[2] <= inp.extents[4] =>
        /\ loc[1] <= loc[3]
        /\ loc[2] <= loc[4]

\* the box lies inside the x-limits, the y-limits and so the boundary of the CRS
InsideDomain(extents, crs) ==
    /\ crs.x_limits[1] <= extents[1]
    /\ extents[1] <= extents[3]
    /\ extents[3] <= crs.x_limits[2]
    /\ crs.y_limits[1] <= extents[2]
    /\ extents[2] <= extents[4]
    /\ extents[4] <= crs.y_limits[2]

\* C3: with src_proj = dest_proj and the box inside the domain of the CRS, the
\* bounds returned are (x1+tol, y1+tol, x2-tol, y2-tol), and no side of them
\* lies outside the box passed in.
C3_SameCrsShrinksByTol ==
    op = "project_extents" /\ inp.src_proj = inp.dest_proj /\ InsideDomain(inp.extents, inp.src_proj) =>
        /\ exc = ""
        /\ out = <<inp.extents[1] + inp.tol, inp.extents[2] + inp.tol,
                   inp.extents[3] - inp.tol, inp.extents[4] - inp.tol>>
        /\ \A k \in {1, 3} : inp.extents[1] <= out[k] /\ out[k] <= inp.extents[3]
        /\ \A k \in {2, 4} : inp.extents[2] <= out[k] /\ out[k] <= inp.extents[4]

\* C10: wrap_lons(v, -180, 360) lies in [-180, 180), differs from v by a multiple
\* of 360, leaves the values of [-180, 180) alone, and takes 200 to -160 and
\* -200 to 160.
C10_WrapRange ==
    op = "wrap_lons" =>
        /\ -180 <= out
        /\ out < 180
        /\ (out - inp.lons) % 360 = 0
        /\ (-180 <= inp.lons /\ inp.lons < 180) => out = inp.lons
        /\ inp.lons = 200 => out = -160
        /\ inp.lons = -200 => out = 160

\* a longitude below -180 - 2*360
C10_Witness ==
    /\ op = "wrap_lons"
    /\ inp.lons = -1000
    /\ out = 80

(***************************************************************************)
(* Properties of proj_to_cartopy.                                          *)
(***************************************************************************)
Recognised == {"tmerc", "lcc", "merc", "utm"}
ClassNamed(v) ==
    CASE v = "tmerc" -> "TransverseMercator" [] v = "lcc" -> "LambertConformal"
      [] v = "merc" -> "Mercator" [] v = "utm" -> "UTM"
IsKey(s, k) == Len(s) = 2 /\ s[1] = k
RecognisedAt(srs) == {i \in 1..Len(srs) : IsKey(srs[i], "proj") /\ srs[i][2] \in Recognised}
Seen(srs, k) == \E i \in 1..Len(srs) : IsKey(srs[i], k)
LastValue(srs, k) == ToFloat(srs[Max({i \in 1..Len(srs) : IsKey(srs[i], k)})][2])

\* C8: a projected srs without a recognised proj value ends in an error and
\* returns nothing; with one, the class resolved is the one of that value (of
\* the last one when it is given several times).
C8_UnknownProjRaises ==
    op = "proj_to_cartopy" /\ inp.kind = "projected" =>
        /\ RecognisedAt(inp.srs) = {} => exc # "" /\ out = <<>>
        /\ RecognisedAt(inp.srs) # {} =>
            /\ loc.cl = ClassNamed(inp.srs[Max(RecognisedAt(inp.srs))][2])
            /\ exc = "" => out.cls = loc.cl

\* an srs whose only proj value is not recognised
C8_Witness ==
    /\ op = "proj_to_cartopy"
    /\ inp.kind = "projected"
    /\ inp.srs = <<<<"proj", "stere">>, <<"x_0", "500">>>>
    /\ exc = "UnboundLocalError"

\* C9: for an srs with a recognised proj value, a projection is returned, and
\* it is given standard_parallels = (lat_1, lat_2) exactly when both keys
\* were seen.
C9_StandardParallels ==
    op = "proj_to_cartopy" /\ inp.kind = "projected" /\ RecognisedAt(inp.srs) # {} =>
        /\ exc = ""
        /\ IF Seen(inp.srs, "lat_1") /\ Seen(inp.srs, "lat_2")
           THEN /\ "standard_parallels" \in DOMAIN out.kw
                /\ out.kw["standard_parallels"] =
                       <<LastValue(inp.srs, "lat_1"), LastValue(inp.srs, "lat_2")>>
           ELSE "standard_parallels" \notin DOMAIN out.kw

====
